---- MODULE Spec2Model ----
(***************************************************************************)
(* The balanced search tree of st.py as a state machine over a heap of     *)
(* InnerNode objects.  Node references are indices into the sequence       *)
(* `node`; Empty is the shared singleton EmptyClass instance, whose        *)
(* `parent` attribute is the variable `eparent`.                           *)
(***************************************************************************)
EXTENDS Integers, Sequences, FiniteSets, TLC

VARIABLES
    root,     \* Tree.root (st.py:204-208): Empty or an InnerNode
    eparent,  \* the parent attribute of the Empty singleton (st.py:89, 151-152, 174, 186)
    node,     \* the InnerNode objects (st.py:143-147): value, left, right, height, parent
    raised,   \* "none", or the exception the last call ended with
    present,  \* driver: the keys whose most recent call was insert
    removed,  \* driver of test_tree: the keys removed so far
    op,       \* driver: the last call, and what contains(key) was before it
    obs,      \* what the last call did on the way: its rebalancing walk, rotations, unlinks
    phase     \* driver of test_tree: "insert" until the first remove

vars == <<root, eparent, node, raised, present, removed, op, obs, phase>>

\* Keys offered to insert/remove in the free-interleaving specification.
MaxKey == 4
Keys == 1..MaxKey

\* Keys offered in the insert-then-remove (round trip) specification.
RTMaxKey == 7
RTKeys == 1..RTMaxKey

\* Keys of the trees a single rotation is applied to.
RotMaxKey == 5

\* References that are not InnerNode objects.
None == -1
Empty == 0

----------------------------------------------------------------------------
(* The heap the methods work on: the tree's root, Empty.parent, the        *)
(* InnerNode objects, the exception in flight ("none" when there is none)  *)
(* and the value the last method call returned.  `log` records what the    *)
(* call in progress has done so far; no method reads it.                   *)

\* the record of a call that has done nothing yet
NoLog ==
    [visited |-> {}, walked |-> FALSE, offTree |-> FALSE, repeat |-> FALSE,
     outOfOrder |-> FALSE, endsAtRoot |-> FALSE,
     rotated |-> FALSE, rotBroke |-> FALSE,
     unlinks |-> 0, unlinkedTwo |-> FALSE, copied |-> FALSE, expect |-> None,
     max |-> None, wrongNode |-> FALSE, wrongKey |-> FALSE, copyNotMax |-> FALSE]

Heap == [root |-> root, ep |-> eparent, node |-> node, raised |-> "none", ret |-> None,
         log |-> NoLog]

Ok(h) == h.raised = "none"

Raise(h, e) == [h EXCEPT !.raised = e]

\* `return n`
Return(h, n) == [h EXCEPT !.ret = n]

Max(a, b) == IF a > b THEN a ELSE b

\* Node.height / EmptyClass.height
Height(h, n) == IF n = Empty THEN 0 ELSE h.node[n].height

\* Node.left / EmptyClass.left
Left(h, n) == IF n = Empty THEN Empty ELSE h.node[n].left

\* Node.right / EmptyClass.right
Right(h, n) == IF n = Empty THEN Empty ELSE h.node[n].right

\* InnerNode.value
Value(h, n) == h.node[n].value

\* the `parent` attribute, of an InnerNode or of the Empty singleton
ParentOf(h, n) == IF n = Empty THEN h.ep ELSE h.node[n].parent

\* Node.bf / EmptyClass.bf
Bf(h, n) == IF n = Empty THEN 0 ELSE Height(h, Right(h, n)) - Height(h, Left(h, n))

\* the InnerNodes below (and including) the nodes of `stack`, by child links
RECURSIVE Reach(_, _, _)
Reach(h, stack, seen) ==
    IF stack = <<>> THEN seen
    ELSE LET n == Head(stack)
         IN  IF n = Empty \/ n \in seen THEN Reach(h, Tail(stack), seen)
             ELSE Reach(h, <<h.node[n].left, h.node[n].right>> \o Tail(stack),
                        seen \cup {n})

Subtree(h, n) == Reach(h, <<n>>, {})

TreeNodes(h) == Subtree(h, h.root)

\* the keys below n in left-to-right order
RECURSIVE InOrderFrom(_, _, _)
InOrderFrom(h, n, fuel) ==
    IF n = Empty \/ fuel = 0 THEN <<>>
    ELSE InOrderFrom(h, h.node[n].left, fuel - 1) \o <<h.node[n].value>>
            \o InOrderFrom(h, h.node[n].right, fuel - 1)

InOrder(h) == InOrderFrom(h, h.root, Len(h.node))

\* the node rightmost(t) takes its value from; None when the loop never ends
RECURSIVE RightmostNode(_, _, _)
RightmostNode(h, t, fuel) ==
    IF Right(h, t) = Empty THEN t
    ELSE IF fuel = 0 THEN None
    ELSE RightmostNode(h, Right(h, t), fuel - 1)

\* _rebalance is about to call _balance_node(p), having come from n
LogBalanceCall(h, p, n) ==
    [h EXCEPT !.log.walked = TRUE,
              !.log.offTree = @ \/ p \notin TreeNodes(h),
              !.log.repeat = @ \/ p \in h.log.visited,
              !.log.outOfOrder = @ \/ (n # Left(h, p) /\ n # Right(h, p)),
              !.log.visited = @ \cup {p}]

\* _rebalance leaves its loop at n
LogWalkEnd(h, n) == [h EXCEPT !.log.endsAtRoot = (n = h.root)]

\* a rotation at x took `before` to `after`; y is the child that moved up,
\* b the subtree that changed sides
LogRotation(before, after, x, y, b, left) ==
    IF ~Ok(after) THEN after
    ELSE [after EXCEPT
            !.log.rotated = TRUE,
            !.log.rotBroke = @ \/ TreeNodes(before) # TreeNodes(after)
                               \/ InOrder(before) # InOrder(after)
                               \/ (left /\ (Left(after, y) # x \/ Right(after, x) # b))
                               \/ (~left /\ (Right(after, y) # x \/ Left(after, x) # b))]

\* _remove is about to replace t by one of its children
LogUnlink(h, t) ==
    [h EXCEPT !.log.unlinks = IF @ < 2 THEN @ + 1 ELSE @,
              !.log.unlinkedTwo = @ \/ (Left(h, t) # Empty /\ Right(h, t) # Empty),
              !.log.wrongNode = @ \/ (h.log.copied /\ t # h.log.expect),
              !.log.wrongKey = @ \/ (h.log.copied /\ Value(h, t) # h.log.max)]

\* _remove is about to overwrite n's value with max = rightmost(n.left)
LogCopy(h, n, max) ==
    [h EXCEPT !.log.copied = TRUE,
              !.log.expect = IF h.log.copied THEN @
                             ELSE RightmostNode(h, Left(h, n), Len(h.node) + 1),
              !.log.max = IF h.log.copied THEN @ ELSE max,
              !.log.copyNotMax = @ \/ \E m \in Subtree(h, Left(h, n)) : Value(h, m) > max]

\* what of the log outlives the call (object references do not)
Observed(l) ==
    [walked |-> l.walked, offTree |-> l.offTree, repeat |-> l.repeat,
     outOfOrder |-> l.outOfOrder, endsAtRoot |-> l.endsAtRoot,
     rotated |-> l.rotated, rotBroke |-> l.rotBroke,
     unlinks |-> l.unlinks, unlinkedTwo |-> l.unlinkedTwo, copied |-> l.copied,
     wrongNode |-> l.wrongNode, wrongKey |-> l.wrongKey, copyNotMax |-> l.copyNotMax]

\* `n.parent = p`, also when n is the Empty singleton
SetParentPtr(h, n, p) ==
    IF n = Empty THEN [h EXCEPT !.ep = p] ELSE [h EXCEPT !.node[n].parent = p]

\* the height both setters and __post_init__ compute
NewHeight(h, n) == Max(Height(h, Left(h, n)), Height(h, Right(h, n))) + 1

\* `self._height = max(self.left.height, self.right.height) + 1`
CacheHeight(h, n) == [h EXCEPT !.node[n].height = NewHeight(h, n)]

\* InnerNode.left setter
SetLeft(h, n, val) ==
    CacheHeight(SetParentPtr([h EXCEPT !.node[n].left = val], val, n), n)

\* InnerNode.right setter
SetRight(h, n, val) ==
    CacheHeight(SetParentPtr([h EXCEPT !.node[n].right = val], val, n), n)

\* __post_init__ without `self._left.parent = self` and `self._right.parent = self`
PostInitNoParent(h, id) == CacheHeight(h, id)

\* InnerNode.__post_init__
PostInit(h, id) ==
    CacheHeight(SetParentPtr(SetParentPtr(h, Left(h, id), id), Right(h, id), id), id)

\* the reference InnerNode(val) evaluates to
NewId(h) == Len(h.node) + 1

\* InnerNode(val): the dataclass defaults, then __post_init__
Alloc(h, val) ==
    PostInit([h EXCEPT !.node = Append(h.node,
                 [value |-> val, left |-> Empty, right |-> Empty,
                  height |-> 0, parent |-> None])],
             NewId(h))

\* How deep a comparison of two objects can go before it repeats a pair.
EqDepth(h) == (Len(h.node) + 2) * (Len(h.node) + 2)

(* a == b as Python evaluates it: identical objects are equal; Empty and   *)
(* None are equal to nothing else; two InnerNodes are compared by the      *)
(* dataclass __eq__, field by field in declaration order, stopping at the  *)
(* first difference.  "R" is a RecursionError (the comparison came back to *)
(* the pair it started from).                                              *)
RECURSIVE NodeEq(_, _, _, _)
NodeEq(h, a, b, depth) ==
    IF a = b THEN "T"
    ELSE IF a = Empty \/ a = None \/ b = Empty \/ b = None THEN "F"
    ELSE IF depth = 0 THEN "R"
    ELSE IF h.node[a].value # h.node[b].value THEN "F"
    ELSE LET l == NodeEq(h, h.node[a].left, h.node[b].left, depth - 1) IN
         IF l # "T" THEN l
         ELSE LET r == NodeEq(h, h.node[a].right, h.node[b].right, depth - 1) IN
         IF r # "T" THEN r
         ELSE IF h.node[a].height # h.node[b].height THEN "F"
         ELSE NodeEq(h, h.node[a].parent, h.node[b].parent, depth - 1)

\* Node.is_left
IsLeft(h, n) ==
    IF ParentOf(h, n) = None THEN "F"
    ELSE NodeEq(h, Left(h, ParentOf(h, n)), n, EqDepth(h))

\* Tree._set_parent from `if old.is_left:`, isLeft being what old.is_left gave
Attach(h, new, isLeft) ==
    IF isLeft = "R" THEN Raise(h, "RecursionError")
    ELSE IF isLeft = "T" THEN SetLeft(h, ParentOf(h, new), new)
    ELSE SetRight(h, ParentOf(h, new), new)

\* Tree._set_parent after `new.parent = old.parent`
AttachInPlaceOf(h, new, old) == Attach(h, new, IsLeft(h, old))

\* Tree._set_parent without `new.parent = None` in the root branch
SetParentNoClear(h, new, old) ==
    IF ParentOf(h, old) = None
    THEN [h EXCEPT !.root = new]
    ELSE AttachInPlaceOf(SetParentPtr(h, new, ParentOf(h, old)), new, old)

\* Tree._set_parent
SetParent(h, new, old) ==
    IF ParentOf(h, old) = None
    THEN SetParentPtr([h EXCEPT !.root = new], new, None)
    ELSE AttachInPlaceOf(SetParentPtr(h, new, ParentOf(h, old)), new, old)

\* Tree._rot_left after `self._set_parent(y, x)`
RotLeftLinks(h, x, y, b) ==
    IF Ok(h) THEN Return(SetLeft(SetRight(h, x, b), y, x), y) ELSE h

\* Tree._rot_left
RotLeft(h, x) ==
    IF Right(h, x) = Empty THEN Raise(h, "AssertInner")
    ELSE LogRotation(h,
            RotLeftLinks(SetParent(h, Right(h, x), x), x, Right(h, x), Left(h, Right(h, x))),
            x, Right(h, x), Left(h, Right(h, x)), TRUE)

\* Tree._rot_right after `self._set_parent(y, x)`
RotRightLinks(h, x, y, b) ==
    IF Ok(h) THEN Return(SetRight(SetLeft(h, x, b), y, x), y) ELSE h

\* Tree._rot_right
RotRight(h, x) ==
    IF Left(h, x) = Empty THEN Raise(h, "AssertInner")
    ELSE LogRotation(h,
            RotRightLinks(SetParent(h, Left(h, x), x), x, Left(h, x), Right(h, Left(h, x))),
            x, Left(h, x), Right(h, Left(h, x)), FALSE)

\* `n = self._rot_left(n)` after the first rotation of a double rotation
ThenRotLeft(h, n) == IF Ok(h) THEN RotLeft(h, n) ELSE h

\* `n = self._rot_right(n)` after the first rotation of a double rotation
ThenRotRight(h, n) == IF Ok(h) THEN RotRight(h, n) ELSE h

\* the rotations Tree._balance_node picks, before its closing assertion
Rotate(h, n) ==
    IF Bf(h, n) = 2 /\ Bf(h, Right(h, n)) >= 0 THEN RotLeft(h, n)
    ELSE IF Bf(h, n) = 2 /\ Bf(h, Right(h, n)) = -1 THEN
        IF Right(h, n) = Empty THEN Raise(h, "AssertInner")
        ELSE ThenRotLeft(RotRight(h, Right(h, n)), n)
    ELSE IF Bf(h, n) = -2 /\ Bf(h, Left(h, n)) <= 0 THEN RotRight(h, n)
    ELSE IF Bf(h, n) = -2 /\ Bf(h, Left(h, n)) = 1 THEN
        IF Left(h, n) = Empty THEN Raise(h, "AssertInner")
        ELSE ThenRotRight(RotLeft(h, Left(h, n)), n)
    ELSE Return(h, n)

\* `assert -2 < n.bf < +2`, n being the node the rotations left in h.ret
AssertBalanced(h) ==
    IF Ok(h) /\ ~(-2 < Bf(h, h.ret) /\ Bf(h, h.ret) < 2)
    THEN Raise(h, "AssertBalance")
    ELSE h

\* Tree._balance_node
BalanceNode(h, n) == AssertBalanced(Rotate(h, n))

\* Iterations after which the upward walk is given up as not terminating.
WalkFuel(h) == 2 * Len(h.node) + 2

RECURSIVE Rebalance(_, _, _)

\* Tree._rebalance: `n = p` and the next iteration
RebalanceNext(h, fuel) == IF Ok(h) THEN Rebalance(h, h.ret, fuel - 1) ELSE h

\* Tree._rebalance
Rebalance(h, n, fuel) ==
    IF ParentOf(h, n) = None THEN LogWalkEnd(h, n)
    ELSE IF fuel = 0 THEN Raise(h, "Diverge")
    ELSE RebalanceNext(BalanceNode(LogBalanceCall(h, ParentOf(h, n), n), ParentOf(h, n)),
                       fuel)

\* `self._rebalance(child)`
RebalanceFrom(h, child) == Rebalance(h, child, WalkFuel(h))

\* Tree._set_child
SetChild(h, parent, child, isLeft) ==
    IF parent = None THEN [h EXCEPT !.root = child]
    ELSE RebalanceFrom(IF isLeft THEN SetLeft(h, parent, child)
                       ELSE SetRight(h, parent, child),
                       child)

\* A read-only descent that takes more steps than there are nodes is in a cycle.
DescentFuel(h) == Len(h.node) + 1

RECURSIVE InsertFrom(_, _, _, _, _, _)

\* Tree.insert's loop without its `val == t.value` test: an equal key goes right
InsertFromNoEqual(h, val, t, p, wentLeft, fuel) ==
    IF t = Empty THEN SetChild(Alloc(h, val), p, NewId(h), wentLeft)
    ELSE IF fuel = 0 THEN Raise(h, "Diverge")
    ELSE IF val < Value(h, t) THEN InsertFrom(h, val, Left(h, t), t, TRUE, fuel - 1)
    ELSE InsertFrom(h, val, Right(h, t), t, FALSE, fuel - 1)

\* the loop of Tree.insert and the call that follows it
InsertFrom(h, val, t, p, wentLeft, fuel) ==
    IF t = Empty THEN SetChild(Alloc(h, val), p, NewId(h), wentLeft)
    ELSE IF fuel = 0 THEN Raise(h, "Diverge")
    ELSE IF val = Value(h, t) THEN h
    ELSE IF val < Value(h, t) THEN InsertFrom(h, val, Left(h, t), t, TRUE, fuel - 1)
    ELSE InsertFrom(h, val, Right(h, t), t, FALSE, fuel - 1)

\* Tree.insert
TreeInsert(h, val) == InsertFrom(h, val, h.root, None, TRUE, DescentFuel(h))

\* rightmost; None when the loop never ends
RECURSIVE Rightmost(_, _, _)
Rightmost(h, t, fuel) ==
    IF Right(h, t) = Empty THEN Value(h, t)
    ELSE IF fuel = 0 THEN None
    ELSE Rightmost(h, Right(h, t), fuel - 1)

\* Loop iterations and recursive calls after which _remove is given up.
RemoveFuel(h) == (Len(h.node) + 1) * (Len(h.node) + 1)

RECURSIVE RemoveFrom(_, _, _, _, _, _)

\* `self._remove(n.value, n.left, n, True)`
RemoveCopied(h, n, fuel) == RemoveFrom(h, Value(h, n), Left(h, n), n, TRUE, fuel - 1)

\* `n.value = rightmost(n.left)` and the recursive call, max being rightmost's result
CopyUp(h, n, max, fuel) ==
    IF max = None THEN Raise(h, "Diverge")
    ELSE RemoveCopied([LogCopy(h, n, max) EXCEPT !.node[n].value = max], n, fuel)

\* Tree._remove with `not val < t.value` where the code tests `val == t.value`
RemoveFromNotLess(h, val, t, p, wentLeft, fuel) ==
    IF t = Empty THEN h
    ELSE IF fuel = 0 THEN Raise(h, "Diverge")
    ELSE IF ~(val < Value(h, t)) THEN
        IF Left(h, t) = Empty THEN SetChild(LogUnlink(h, t), p, Right(h, t), wentLeft)
        ELSE IF Right(h, t) = Empty THEN SetChild(LogUnlink(h, t), p, Left(h, t), wentLeft)
        ELSE CopyUp(h, t, Rightmost(h, Left(h, t), DescentFuel(h)), fuel)
    ELSE RemoveFrom(h, val, Left(h, t), t, TRUE, fuel - 1)

\* Tree._remove
RemoveFrom(h, val, t, p, wentLeft, fuel) ==
    IF t = Empty THEN h
    ELSE IF fuel = 0 THEN Raise(h, "Diverge")
    ELSE IF val = Value(h, t) THEN
        IF Left(h, t) = Empty THEN SetChild(LogUnlink(h, t), p, Right(h, t), wentLeft)
        ELSE IF Right(h, t) = Empty THEN SetChild(LogUnlink(h, t), p, Left(h, t), wentLeft)
        ELSE CopyUp(h, t, Rightmost(h, Left(h, t), DescentFuel(h)), fuel)
    ELSE IF val < Value(h, t) THEN RemoveFrom(h, val, Left(h, t), t, TRUE, fuel - 1)
    ELSE RemoveFrom(h, val, Right(h, t), t, FALSE, fuel - 1)

\* Tree.remove
TreeRemove(h, val) == RemoveFrom(h, val, h.root, None, TRUE, RemoveFuel(h))

\* Tree.__contains__: "T", "F", or "Diverge" for a loop that never ends
RECURSIVE ContainsFrom(_, _, _, _)
ContainsFrom(h, val, t, fuel) ==
    IF t = Empty THEN "F"
    ELSE IF fuel = 0 THEN "Diverge"
    ELSE IF Value(h, t) = val THEN "T"
    ELSE IF val < Value(h, t) THEN ContainsFrom(h, val, Left(h, t), fuel - 1)
    ELSE ContainsFrom(h, val, Right(h, t), fuel - 1)

TreeContains(h, val) == ContainsFrom(h, val, h.root, DescentFuel(h)) = "T"

\* Tree.__bool__
TreeBool(h) == h.root # Empty

----------------------------------------------------------------------------
(* Object identity.  Python objects have no observable address: the code   *)
(* compares references with `is` and ==.  After every operation the        *)
(* objects nothing refers to any more are dropped (reference counting) and *)
(* the live ones are numbered in the order a walk from the root and from   *)
(* Empty.parent meets them.                                                *)

InSeq(s, x) == \E i \in 1..Len(s) : s[i] = x

RECURSIVE Live(_, _, _)
Live(h, stack, order) ==
    IF stack = <<>> THEN order
    ELSE LET n == Head(stack)
         IN  IF n = None \/ n = Empty \/ InSeq(order, n)
             THEN Live(h, Tail(stack), order)
             ELSE Live(h, <<h.node[n].left, h.node[n].right, h.node[n].parent>>
                             \o Tail(stack),
                       Append(order, n))

\* the number a live object gets
Index(order, n) ==
    IF n = None \/ n = Empty THEN n
    ELSE CHOOSE i \in 1..Len(order) : order[i] = n

Renumber(h, order) ==
    [root |-> Index(order, h.root), ep |-> Index(order, h.ep), raised |-> h.raised,
     log |-> h.log,
     node |-> [i \in 1..Len(order) |->
                 [value |-> h.node[order[i]].value,
                  left |-> Index(order, h.node[order[i]].left),
                  right |-> Index(order, h.node[order[i]].right),
                  height |-> h.node[order[i]].height,
                  parent |-> Index(order, h.node[order[i]].parent)]]]

Collect(h) == Renumber(h, Live(h, <<h.root, h.ep>>, <<>>))

----------------------------------------------------------------------------
\* Tree.__init__, with the Empty singleton as EmptyClass.__new__ leaves it
Init ==
    /\ root = Empty
    /\ eparent = None
    /\ node = <<>>
    /\ raised = "none"
    /\ present = {}
    /\ removed = {}
    /\ op = [name |-> "init", hit |-> FALSE]
    /\ obs = Observed(NoLog)
    /\ phase = "insert"

Store(h) ==
    /\ root' = h.root
    /\ eparent' = h.ep
    /\ node' = h.node
    /\ raised' = h.raised
    /\ obs' = Observed(h.log)

\* a call t.insert(k) by the driver
Insert(k) ==
    /\ raised = "none"
    /\ Store(Collect(TreeInsert(Heap, k)))
    /\ present' = present \cup {k}
    /\ op' = [name |-> "insert", hit |-> TreeContains(Heap, k)]

\* a call t.remove(k) by the driver
Remove(k) ==
    /\ raised = "none"
    /\ Store(Collect(TreeRemove(Heap, k)))
    /\ present' = present \ {k}
    /\ op' = [name |-> "remove", hit |-> TreeContains(Heap, k)]

InsertAny == \E k \in Keys : Insert(k) /\ UNCHANGED <<phase, removed>>

RemoveAny == \E k \in Keys : Remove(k) /\ UNCHANGED <<phase, removed>>

Next == InsertAny \/ RemoveAny

Spec == Init /\ [][Next]_vars

\* test_tree's shape: distinct keys are inserted, then removed in any order
RTInsert == \E k \in RTKeys \ (present \cup removed) :
    phase = "insert" /\ Insert(k) /\ UNCHANGED <<phase, removed>>

RTRemove == \E k \in present :
    Remove(k) /\ removed' = removed \cup {k} /\ phase' = "remove"

RTNext == RTInsert \/ RTRemove

RTSpec == Init /\ [][RTNext]_vars

----------------------------------------------------------------------------
(* Rotations on their own: _rot_left and _rot_right applied once to a tree *)
(* put together with the InnerNode constructor, so that every cached       *)
(* height and every parent pointer is as __post_init__ leaves it.          *)

\* search trees over the keys lo..hi, written <<left, key, right>>; <<>> is Empty
RECURSIVE Shapes(_, _)
Shapes(lo, hi) ==
    {<<>>} \cup UNION {{<<l, v, r>> : l \in Shapes(lo, v - 1), r \in Shapes(v + 1, hi)} :
                       v \in lo..hi}

\* InnerNode(val, l, r)
Construct(h, val, l, r) ==
    Return(PostInit([h EXCEPT !.node = Append(h.node,
                        [value |-> val, left |-> l, right |-> r,
                         height |-> 0, parent |-> None])],
                    NewId(h)),
           NewId(h))

RECURSIVE Build(_, _)

\* the node itself, once both arguments of the constructor are evaluated
BuildNode(h, val, l) == Construct(h, val, l, h.ret)

\* the right argument, the left one being h.ret
BuildRight(h, t) == BuildNode(Build(h, t[3]), t[2], h.ret)

\* the expression InnerNode(key, <left>, <right>) for a shape, Empty for <<>>
Build(h, t) == IF t = <<>> THEN Return(h, Empty) ELSE BuildRight(Build(h, t[1]), t)

\* `t = Tree(); t.root = <the tree of shape s>`
Plant(h) == [h EXCEPT !.root = h.ret]

NewTree ==
    [root |-> Empty, ep |-> None, node |-> <<>>, raised |-> "none", ret |-> None,
     log |-> NoLog]

\* the keys of a shape
RECURSIVE ShapeKeys(_)
ShapeKeys(t) == IF t = <<>> THEN {} ELSE ShapeKeys(t[1]) \cup {t[2]} \cup ShapeKeys(t[3])

\* every cached height is 1 + max of the children's cached heights
HeightsConsistent(h) == \A n \in 1..Len(h.node) : Height(h, n) = NewHeight(h, n)

RotInit ==
    \E t \in Shapes(1, RotMaxKey) :
        /\ root = Plant(Build(NewTree, t)).root
        /\ eparent = Plant(Build(NewTree, t)).ep
        /\ node = Plant(Build(NewTree, t)).node
        /\ raised = "none"
        /\ obs = Observed(NoLog)
        /\ present = ShapeKeys(t)
        /\ removed = {}
        /\ op = [name |-> "init", hit |-> FALSE]
        /\ phase = "tree"

\* what a rotation at x is applied to: y the child that moves up, p x's parent
RotArgs(name, x, y) ==
    [name |-> name, hit |-> TRUE, x |-> x, y |-> y, p |-> ParentOf(Heap, x),
     ybf |-> Bf(Heap, y), consistent |-> HeightsConsistent(Heap)]

\* a call t._rot_left(x)
RotLeftAt ==
    \E x \in TreeNodes(Heap) :
        /\ phase = "tree"
        /\ Right(Heap, x) # Empty
        /\ Store(RotLeft(Heap, x))
        /\ op' = RotArgs("rot_left", x, Right(Heap, x))
        /\ phase' = "rotated"
        /\ UNCHANGED <<present, removed>>

\* a call t._rot_right(x)
RotRightAt ==
    \E x \in TreeNodes(Heap) :
        /\ phase = "tree"
        /\ Left(Heap, x) # Empty
        /\ Store(RotRight(Heap, x))
        /\ op' = RotArgs("rot_right", x, Left(Heap, x))
        /\ phase' = "rotated"
        /\ UNCHANGED <<present, removed>>

RotNext == RotLeftAt \/ RotRightAt

RotSpec == RotInit /\ [][RotNext]_vars

----------------------------------------------------------------------------
(* What the driver and the tests observe.                                  *)

AllKeys == Keys \cup RTKeys

\* the height of a subtree recomputed by traversal
RECURSIVE RealHeight(_, _, _)
RealHeight(h, n, fuel) ==
    IF n = Empty \/ fuel = 0 THEN 0
    ELSE 1 + Max(RealHeight(h, h.node[n].left, fuel - 1),
                 RealHeight(h, h.node[n].right, fuel - 1))

Completed == raised = "none"

----------------------------------------------------------------------------
\* C1: after any sequence of inserts and removes, contains(k) is true exactly
\* for the keys whose most recent operation was an insert.
C1_SetSemantics ==
    Completed => \A k \in AllKeys : TreeContains(Heap, k) <=> k \in present

\* C2: after every completed insert or remove, every node reachable from the
\* root has a cached balance factor in {-1, 0, 1} (test_st.is_balanced).
C2_CachedBalance ==
    Completed => \A n \in TreeNodes(Heap) : Bf(Heap, n) \in {-1, 0, 1}

\* C3: after every completed insert or remove, every reachable InnerNode's
\* cached height is 1 + the larger of its children's cached heights.
C3_HeightCorrect ==
    Completed => \A n \in TreeNodes(Heap) : Height(Heap, n) = NewHeight(Heap, n)

\* C4: after every completed insert or remove, the real heights of the two
\* subtrees of every reachable node differ by at most 1.
C4_RealBalance ==
    Completed => \A n \in TreeNodes(Heap) :
        RealHeight(Heap, Right(Heap, n), Len(node))
            - RealHeight(Heap, Left(Heap, n), Len(node)) \in {-1, 0, 1}

\* C5: after every completed insert or remove, every key in the left subtree
\* of a reachable node is smaller than the node's key and every key in its
\* right subtree is greater.
C5_BSTOrder ==
    Completed => \A n \in TreeNodes(Heap) :
        /\ \A m \in Subtree(Heap, Left(Heap, n)) : Value(Heap, m) < Value(Heap, n)
        /\ \A m \in Subtree(Heap, Right(Heap, n)) : Value(Heap, m) > Value(Heap, n)

\* C6: when distinct keys are inserted and then removed in any order, no call
\* raises, every key inserted and not yet removed is contained and every
\* removed key is not.
C6_RoundTrip ==
    /\ raised = "none"
    /\ \A k \in present : TreeContains(Heap, k)
    /\ \A k \in removed : ~TreeContains(Heap, k)

\* C7: a tree in which every inserted key has been removed after its last
\* insertion reports empty.
C7_Emptiness == (Completed /\ present = {}) => ~TreeBool(Heap)

\* C8: remove(k) of a key that contains(k) reports absent (op.hit is what
\* contains(k) was when the call began) leaves the root reference and every
\* node's key, children, parent and cached height unchanged and does not raise.
C8_RemoveAbsentNoOp ==
    [][(op'.name = "remove" /\ ~op'.hit)
            => (root' = root /\ node' = node /\ raised' = "none")]_vars

\* a remove of an absent key has run on a tree that holds other keys
C8_Witness ==
    /\ op.name = "remove" /\ ~op.hit /\ raised = "none"
    /\ Cardinality(TreeNodes(Heap)) >= 2

\* C9: insert(k) of a key that contains(k) reports present (op.hit) creates no
\* node and leaves the root reference and every node's key, children, parent
\* and cached height unchanged.
C9_InsertDuplicateNoOp ==
    [][(op'.name = "insert" /\ op'.hit)
            => (root' = root /\ node' = node /\ raised' = "none")]_vars

\* an insert of a key already in a tree of several nodes has run
C9_Witness ==
    /\ op.name = "insert" /\ op.hit /\ raised = "none"
    /\ Cardinality(TreeNodes(Heap)) >= 2

\* C10: the assertion that closes _balance_node never fails, and no insert or
\* remove raises an AssertionError.
C10_AssertionHolds == raised \notin {"AssertBalance", "AssertInner"}

\* C11: after every completed insert or remove, every reachable InnerNode is
\* the parent of its InnerNode children, and an InnerNode root has parent None.
C11_ParentConsistent ==
    Completed =>
        /\ root # Empty => ParentOf(Heap, root) = None
        /\ \A n \in TreeNodes(Heap) :
            /\ Left(Heap, n) # Empty => ParentOf(Heap, Left(Heap, n)) = n
            /\ Right(Heap, n) # Empty => ParentOf(Heap, Right(Heap, n)) = n

\* following parent links from n reaches None within `fuel` steps
RECURSIVE ParentChainEnds(_, _, _)
ParentChainEnds(h, n, fuel) ==
    IF n = None THEN TRUE
    ELSE IF fuel = 0 THEN FALSE
    ELSE ParentChainEnds(h, ParentOf(h, n), fuel - 1)

\* C16: every insert and remove terminates (no descent and no upward walk runs
\* out of steps), contains terminates for every key, and following parent
\* links from any live node, or from Empty, ends at None.
C16_Terminates ==
    /\ raised # "Diverge"
    /\ \A k \in AllKeys : ContainsFrom(Heap, k, root, DescentFuel(Heap)) # "Diverge"
    /\ \A n \in 0..Len(node) : ParentChainEnds(Heap, n, Len(node) + 1)

\* a call has completed on a tree whose root still points up at a removed root
C16_Witness ==
    /\ raised = "none" /\ op.name = "remove" /\ op.hit
    /\ root # Empty /\ ParentOf(Heap, root) # None

C12_WalkOnTree ==
    Completed =>
        /\ ~obs.offTree /\ ~obs.repeat /\ ~obs.outOfOrder
        /\ obs.walked => obs.endsAtRoot

\* C13: every rotation of a completed insert or remove leaves the set of nodes
\* reachable from the root and the in-order sequence of their keys as they
\* were, with y above x and the middle subtree moved to x.
C13_RotationKeepsNodes == Completed => ~obs.rotBroke

\* C15: every remove of a key that is present unlinks exactly one node, which
\* has at most one InnerNode child; when a key was copied up, it is the
\* largest key of the left subtree and the node unlinked is the one that held it.
C15_UnlinksOneNode ==
    (Completed /\ op.name = "remove" /\ op.hit) =>
        /\ obs.unlinks = 1 /\ ~obs.unlinkedTwo
        /\ ~obs.wrongKey /\ ~obs.copyNotMax


\* C14: when _rot_left(x) or _rot_right(x) is applied to a tree whose cached
\* heights are all consistent, and the balance factor of y, the child that
\* moves up, is -1, 0 or +1, then on return the cached heights of x, of y and
\* of x's former parent are each 1 + max of the cached heights of their
\* children.
C14_RotationHeights ==
    (phase = "rotated" /\ raised = "none" /\ op.consistent /\ op.ybf \in -1..1) =>
        \A n \in {op.x, op.y, op.p} \ {None} : Height(Heap, n) = NewHeight(Heap, n)

====
